---- MODULE Spec2Model ----
(***************************************************************************)
(* Model of src/polygon_sdk.py: the PolygonSDK client, the seven           *)
(* operation-level methods, and the JSON-RPC node they talk to.            *)
(*                                                                         *)
(* Every method body is a sequence of calls into the web3 dependency.      *)
(* A caller thread executes one method at a time; each dependency call is  *)
(* one step, so that two callers sharing the SDK instance can interleave   *)
(* between the nonce fetch and the broadcast.                              *)
(***************************************************************************)
EXTENDS Integers, Sequences, FiniteSets, TLC

\* ---------------------------------------------------------------- bounds
MaxSendCalls == 2
MaxBlock == 2

\* ---------------------------------------------------------------- values
\* Python's None and "a value": results are wrapped so that an absent
\* result is comparable with any present one.
None == <<>>
Some(v) == <<v>>
NoExc == "NoExc"

Urls == {"https://rpc-a", "https://rpc-b"}
ValidAddresses == {"0xA", "0xB", "0xT"}
WalletInputs == {"0xA", "0xB", "0xZZ"}
ContractAddresses == {"0xT", "0xZZ"}

\* ------------------------------------------------------------ exceptions
\* Class hierarchy of the exceptions the dependency raises.
Parent(e) ==
  CASE e = "InvalidAddress" -> "ValueError"
    [] e = "JSONDecodeError" -> "ValueError"
    [] OTHER -> "Exception"

IsInstance(e, cls) == e = cls \/ Parent(e) = cls \/ cls = "Exception"

\* ------------------------------------------------------------- constants
GasLimit == 2000000
PolygonChainId == 137
\* Wei amounts that exceed the integer range are kept as digits * 10^exp.
GweiExp == 9
toWei(number, unit) ==
  [digits |-> number, exp |-> IF unit = "gwei" THEN GweiExp ELSE 0]

\* ------------------------------------------------------------------ json
dumps(doc) == [wellformed |-> TRUE, doc |-> doc]
MalformedJson == [wellformed |-> FALSE, doc |-> <<>>]
loadsRaises(text) == ~text.wellformed
loads(text) == text.doc

erc20_abi ==
  dumps(<<[name |-> "balanceOf", inputs |-> 1, stateMutability |-> "view"]>>)
TokenAbi ==
  dumps(<<[name |-> "balanceOf", inputs |-> 1, stateMutability |-> "view"],
          [name |-> "transfer", inputs |-> 2, stateMutability |-> "nonpayable"]>>)

\* Arguments the callers pass: the well-formed cases and one case for each
\* way an argument can be wrong.
SendTransactionInputs ==
  {[private_key |-> "k1", to_address |-> "0xB", amount_wei |-> 1],
   [private_key |-> "k1", to_address |-> "0xB", amount_wei |-> 2],
   [private_key |-> "k2", to_address |-> "0xA", amount_wei |-> 1],
   [private_key |-> "badkey", to_address |-> "0xB", amount_wei |-> 1],
   [private_key |-> "k1", to_address |-> "0xZZ", amount_wei |-> 1]}

ContractCallInputs ==
  {[contract_address |-> "0xT", abi |-> TokenAbi, function_name |-> "balanceOf", args |-> <<"0xA">>],
   [contract_address |-> "0xT", abi |-> TokenAbi, function_name |-> "transfer", args |-> <<"0xB", 1>>],
   [contract_address |-> "0xT", abi |-> MalformedJson, function_name |-> "balanceOf", args |-> <<"0xA">>],
   [contract_address |-> "0xZZ", abi |-> TokenAbi, function_name |-> "balanceOf", args |-> <<"0xA">>],
   [contract_address |-> "0xT", abi |-> TokenAbi, function_name |-> "nope", args |-> <<"0xA">>],
   [contract_address |-> "0xT", abi |-> TokenAbi, function_name |-> "transfer", args |-> <<"0xB">>]}

SendContractInputs ==
  {[private_key |-> k, contract_address |-> "0xT", abi |-> TokenAbi,
    function_name |-> "transfer", args |-> <<"0xB", 1>>] : k \in {"k1", "k2", "badkey"}}
  \cup
  {[private_key |-> "k1", contract_address |-> c.contract_address, abi |-> c.abi,
    function_name |-> c.function_name, args |-> c.args] :
      c \in {d \in ContractCallInputs : d.function_name # "transfer" \/ Len(d.args) = 1}}

\* ----------------------------------------------------------------- state
VARIABLES
  sdk,          \* <<>> or <<[provider_url, web3]>>: the constructed instance
  ctor,         \* <<>> or <<r>>: outcome of the last construction attempt
  call,         \* per caller thread: the method invocation in progress
  txCount,      \* node: mined transaction count per sender (the nonce)
  pending,      \* node: transactions accepted into the pool
  chain,        \* node: mined transactions, one per block after genesis
  sendCalls,    \* number of send_* invocations started
  nonceFetches  \* number of getTransactionCount requests issued

vars == <<sdk, ctor, call, txCount, pending, chain, sendCalls, nonceFetches>>
node == <<txCount, pending, chain>>

NoLocals ==
  [account |-> None, nonce |-> None, transaction |-> None, signed |-> None,
   contract |-> None, function |-> None, result |-> None]

IdleCall ==
  [pc |-> "idle", op |-> "none", outer |-> "none", outerArgs |-> <<>>,
   args |-> <<>>, ip |-> 0,
   delegations |-> <<>>, locals |-> NoLocals, ret |-> None, raised |-> NoExc, err |-> NoExc,
   log |-> <<>>, trace |-> <<>>]

Senders == {"0xA", "0xB"}

InitWith(callers) ==
  /\ sdk = <<>>
  /\ ctor = <<>>
  /\ call = [t \in callers |-> IdleCall]
  /\ txCount = [a \in Senders |-> 0]
  /\ pending = {}
  /\ chain = <<>>
  /\ sendCalls = 0
  /\ nonceFetches = 0

\* One caller: the synchronous use the SDK is written for.
Init == InitWith({"t1"})
\* Two callers sharing the instance.
InitConcurrent == InitWith({"t1", "t2"})

Callers == DOMAIN call

\* Variant: the connectivity check is skipped.
init_never_raises(connected) == NoExc

\* ----------------------------------------------------------- construction
\* __init__: the exception construction raises, given the connectivity check.
init_raises(connected) == IF ~connected THEN "ConnectionError" ELSE NoExc

Web3(url) == [provider |-> url]

PolygonSDK_init ==
  /\ sdk = <<>>
  /\ \E url \in Urls, connected \in BOOLEAN :
       LET exc == init_raises(connected) IN
       /\ ctor' = <<[url |-> url, connected |-> connected, raised |-> exc,
                     log |-> IF exc = NoExc
                             THEN <<[level |-> "INFO", msg |-> "Connected to Polygon provider"]>>
                             ELSE <<>>]>>
       /\ sdk' = IF exc = NoExc
                 THEN <<[provider_url |-> url, web3 |-> Web3(url)]>>
                 ELSE <<>>
  /\ UNCHANGED <<call, node, sendCalls, nonceFetches>>

\* --------------------------------------------------------- method bodies
\* The dependency calls each method makes, in program order.
get_block_steps == <<"getBlock">>
get_transaction_steps == <<"getTransaction">>
get_balance_steps == <<"getBalance">>
\* Variant: the nonce is fetched a second time before signing.
send_transaction_steps_refetch ==
  <<"privateKeyToAccount", "getTransactionCount", "getTransactionCount",
    "signTransaction", "sendRawTransaction">>
\* Variant: the signed transaction is broadcast twice.
send_transaction_steps_rebroadcast ==
  <<"privateKeyToAccount", "getTransactionCount", "signTransaction",
    "sendRawTransaction", "sendRawTransaction">>

send_transaction_steps ==
  <<"privateKeyToAccount", "getTransactionCount", "signTransaction",
    "sendRawTransaction">>
call_contract_function_steps == <<"contract", "get_function_by_name", "call">>
send_contract_transaction_steps ==
  <<"contract", "get_function_by_name", "privateKeyToAccount",
    "getTransactionCount", "buildTransaction", "signTransaction",
    "sendRawTransaction">>

Steps(op) ==
  CASE op = "get_block" -> get_block_steps
    [] op = "get_transaction" -> get_transaction_steps
    [] op = "get_balance" -> get_balance_steps
    [] op = "send_transaction" -> send_transaction_steps
    [] op = "call_contract_function" -> call_contract_function_steps
    [] op = "send_contract_transaction" -> send_contract_transaction_steps

\* Variants: the except clause names another class.
get_block_except_other == "ValueError"
get_balance_except_other == "TypeError"

\* The exception class named by each method's except clause.
get_block_except == "BlockNotFound"
get_transaction_except == "TransactionNotFound"
get_balance_except == "ValueError"
send_transaction_except == "ValueError"
call_contract_function_except == "Exception"
send_contract_transaction_except == "Exception"
get_erc20_balance_except == "Exception"

Except(op) ==
  CASE op = "get_block" -> get_block_except
    [] op = "get_transaction" -> get_transaction_except
    [] op = "get_balance" -> get_balance_except
    [] op = "send_transaction" -> send_transaction_except
    [] op = "call_contract_function" -> call_contract_function_except
    [] op = "send_contract_transaction" -> send_contract_transaction_except
    [] op = "get_erc20_balance" -> get_erc20_balance_except

ErrorMsg(op) ==
  CASE op = "get_block" -> "Block not found"
    [] op = "get_transaction" -> "Transaction not found"
    [] op = "get_balance" -> "Error getting balance"
    [] op = "send_transaction" -> "Transaction error"
    [] op = "call_contract_function" -> "Error calling contract function"
    [] op = "send_contract_transaction" -> "Error sending contract transaction"
    [] op = "get_erc20_balance" -> "Error getting ERC20 token balance"

InfoMsg(op) ==
  IF op = "send_transaction" THEN "Transaction sent" ELSE "Contract transaction sent"

SendOps == {"send_transaction", "send_contract_transaction"}

\* ------------------------------------------------------ hashes and hex
Hash(raw) == [bytes |-> raw]
hex(h) == [hexstr |-> h.bytes]
UnknownHash == [hexstr |-> <<>>]

\* What the method returns after its last dependency call succeeded.
ReturnValue(op, l) ==
  IF op \in SendOps THEN Some(hex(l.result)) ELSE Some(l.result)

\* A dependency call raised exc inside the method running on thread t.
Raise(t, fn, exc) ==
  LET c == call[t]
      tr == Append(c.trace, [fn |-> fn, ok |-> FALSE])
  IN  IF IsInstance(exc, Except(c.op))
      THEN [c EXCEPT !.pc = "done", !.ret = None, !.err = exc, !.trace = tr,
                     !.log = Append(@, [level |-> "ERROR", msg |-> ErrorMsg(c.op)])]
      ELSE IF c.outer # "none" /\ IsInstance(exc, Except(c.outer))
      THEN [c EXCEPT !.pc = "done", !.ret = None, !.err = exc, !.trace = tr,
                     !.log = Append(@, [level |-> "ERROR", msg |-> ErrorMsg(c.outer)])]
      ELSE [c EXCEPT !.pc = "done", !.raised = exc, !.err = exc, !.trace = tr]

\* A dependency call returned; l is the method's locals after it.
Proceed(t, fn, l) ==
  LET c == call[t]
      tr == Append(c.trace, [fn |-> fn, ok |-> TRUE])
  IN  IF c.ip = Len(Steps(c.op))
      THEN [c EXCEPT !.pc = "done", !.locals = l, !.trace = tr,
                     !.ret = ReturnValue(c.op, l),
                     !.log = IF c.op \in SendOps
                             THEN Append(@, [level |-> "INFO", msg |-> InfoMsg(c.op)])
                             ELSE @]
      ELSE [c EXCEPT !.ip = @ + 1, !.locals = l, !.trace = tr]

At(t, fn) ==
  /\ call[t].pc = "run"
  /\ Steps(call[t].op)[call[t].ip] = fn

Begin(t, op, args) ==
  /\ sdk # <<>>
  /\ call[t].pc = "idle"
  /\ call' = [call EXCEPT ![t] = [IdleCall EXCEPT !.pc = "run", !.op = op,
                                   !.args = args, !.ip = 1]]

\* ------------------------------------------------------------- the node
Height == Len(chain)
Latest == [tag |-> "latest", number |-> 0]
BlockNumber(n) == [tag |-> "number", number |-> n]
BlockIds == {Latest} \cup {BlockNumber(n) : n \in 0..MaxBlock}

ResolveBlock(id) == IF id.tag = "latest" THEN Height ELSE id.number
BlockExists(id) == ResolveBlock(id) <= Height
Block(n) ==
  [number |-> n,
   transactions |-> IF n = 0 THEN <<>> ELSE <<hex(Hash(chain[n]))>>]
eth_getBlock(id) == Block(ResolveBlock(id))

Mined == {chain[i] : i \in 1..Len(chain)}
KnownTransactions == pending \cup Mined
TransactionKnown(h) == \E raw \in KnownTransactions : hex(Hash(raw)) = h
eth_getTransaction(h) ==
  LET raw == CHOOSE r \in KnownTransactions : hex(Hash(r)) = h
  IN  [hash |-> h, from |-> raw.from, nonce |-> raw.tx.nonce, to |-> raw.tx.to,
       value |-> raw.tx.value]
TransactionHashInputs ==
  {hex(Hash(raw)) : raw \in KnownTransactions} \cup {UnknownHash}

RECURSIVE Received(_, _)
Received(a, n) ==
  IF n = 0 THEN 0
  ELSE Received(a, n - 1) + (IF chain[n].tx.to = a THEN chain[n].tx.value ELSE 0)
RECURSIVE Spent(_, _)
Spent(a, n) ==
  IF n = 0 THEN 0
  ELSE Spent(a, n - 1) + (IF chain[n].from = a THEN chain[n].tx.value ELSE 0)
eth_getBalance(a) == 100 + Received(a, Height) - Spent(a, Height)

\* Variant: a per-sender sequencer hands each in-flight send its own nonce.
sequenced_getTransactionCount(address) ==
  txCount[address]
  + Cardinality({t \in DOMAIN call :
       /\ call[t].pc = "run"
       /\ call[t].locals.account = Some(address)
       /\ call[t].locals.nonce # None})

eth_getTransactionCount(address) == txCount[address]

AccountOf(key) == IF key = "k1" THEN "0xA" ELSE "0xB"
KeyValid(key) == key \in {"k1", "k2"}

TokenBalance(token, wallet) == IF wallet = "0xA" THEN 1000 ELSE 0
eth_call(f) ==
  IF f.name = "balanceOf" THEN TokenBalance(f.address, f.args[1]) ELSE 1

\* The node mines one pending transaction whose nonce is the sender's next.
Mine ==
  /\ \E raw \in pending :
       /\ raw.tx.nonce = txCount[raw.from]
       /\ chain' = Append(chain, raw)
       /\ txCount' = [txCount EXCEPT ![raw.from] = @ + 1]
       /\ pending' = {p \in pending : ~(p.from = raw.from /\ p.tx.nonce <= raw.tx.nonce)}
  /\ UNCHANGED <<sdk, ctor, call, sendCalls, nonceFetches>>

\* ------------------------------------------------- entering the methods
get_block(t) ==
  /\ \E block_number \in BlockIds :
       Begin(t, "get_block", [block_number |-> block_number])
  /\ UNCHANGED <<sdk, ctor, node, sendCalls, nonceFetches>>

get_transaction(t) ==
  /\ \E tx_hash \in TransactionHashInputs :
       Begin(t, "get_transaction", [tx_hash |-> tx_hash])
  /\ UNCHANGED <<sdk, ctor, node, sendCalls, nonceFetches>>

get_balance(t) ==
  /\ \E address \in WalletInputs :
       Begin(t, "get_balance", [address |-> address])
  /\ UNCHANGED <<sdk, ctor, node, sendCalls, nonceFetches>>

send_transaction(t) ==
  /\ sendCalls < MaxSendCalls
  /\ \E args \in SendTransactionInputs : Begin(t, "send_transaction", args)
  /\ sendCalls' = sendCalls + 1
  /\ UNCHANGED <<sdk, ctor, node, nonceFetches>>

call_contract_function(t) ==
  /\ \E args \in ContractCallInputs : Begin(t, "call_contract_function", args)
  /\ UNCHANGED <<sdk, ctor, node, sendCalls, nonceFetches>>

send_contract_transaction(t) ==
  /\ sendCalls < MaxSendCalls
  /\ \E args \in SendContractInputs : Begin(t, "send_contract_transaction", args)
  /\ sendCalls' = sendCalls + 1
  /\ UNCHANGED <<sdk, ctor, node, nonceFetches>>

\* Variant: token and wallet are passed in each other's place.
get_erc20_balance_request_swapped(token_address, wallet_address) ==
  [contract_address |-> wallet_address, abi |-> erc20_abi,
   function_name |-> "balanceOf", args |-> <<token_address>>]

\* The call get_erc20_balance passes on to call_contract_function.
get_erc20_balance_request(token_address, wallet_address) ==
  [contract_address |-> token_address, abi |-> erc20_abi,
   function_name |-> "balanceOf", args |-> <<wallet_address>>]

get_erc20_balance(t) ==
  /\ sdk # <<>>
  /\ call[t].pc = "idle"
  /\ \E token_address \in ContractAddresses, wallet_address \in WalletInputs :
       LET req == get_erc20_balance_request(token_address, wallet_address) IN
       call' = [call EXCEPT ![t] =
                  [IdleCall EXCEPT !.pc = "run", !.op = "call_contract_function",
                                   !.outer = "get_erc20_balance",
                                   !.outerArgs = [token_address |-> token_address,
                                                  wallet_address |-> wallet_address],
                                   !.delegations = <<req>>,
                                   !.args = req, !.ip = 1]]
  /\ UNCHANGED <<sdk, ctor, node, sendCalls, nonceFetches>>

\* The caller takes the method's result (or exception).
Return(t) ==
  /\ call[t].pc = "done"
  /\ call' = [call EXCEPT ![t] = IdleCall]
  /\ UNCHANGED <<sdk, ctor, node, sendCalls, nonceFetches>>

\* ------------------------------------------------------ dependency calls
\* Each action is one call into web3 made by the method on thread t.
\* Calls that reach the node can also fail in transport.

getBlock(t) ==
  /\ At(t, "getBlock")
  /\ LET id == call[t].args.block_number IN
     \/ /\ BlockExists(id)
        /\ call' = [call EXCEPT ![t] =
             Proceed(t, "getBlock", [call[t].locals EXCEPT !.result = eth_getBlock(id)])]
     \/ /\ ~BlockExists(id)
        /\ call' = [call EXCEPT ![t] = Raise(t, "getBlock", "BlockNotFound")]
     \/ call' = [call EXCEPT ![t] = Raise(t, "getBlock", "TransportError")]
  /\ UNCHANGED <<sdk, ctor, node, sendCalls, nonceFetches>>

getTransaction(t) ==
  /\ At(t, "getTransaction")
  /\ LET h == call[t].args.tx_hash IN
     \/ /\ TransactionKnown(h)
        /\ call' = [call EXCEPT ![t] =
             Proceed(t, "getTransaction",
                     [call[t].locals EXCEPT !.result = eth_getTransaction(h)])]
     \/ /\ ~TransactionKnown(h)
        /\ call' = [call EXCEPT ![t] = Raise(t, "getTransaction", "TransactionNotFound")]
     \/ call' = [call EXCEPT ![t] = Raise(t, "getTransaction", "TransportError")]
  /\ UNCHANGED <<sdk, ctor, node, sendCalls, nonceFetches>>

getBalance(t) ==
  /\ At(t, "getBalance")
  /\ LET a == call[t].args.address IN
     \/ /\ a \in ValidAddresses
        /\ call' = [call EXCEPT ![t] =
             Proceed(t, "getBalance", [call[t].locals EXCEPT !.result = eth_getBalance(a)])]
     \/ /\ a \notin ValidAddresses
        /\ call' = [call EXCEPT ![t] = Raise(t, "getBalance", "InvalidAddress")]
     \/ /\ a \in ValidAddresses
        /\ call' = [call EXCEPT ![t] = Raise(t, "getBalance", "TransportError")]
  /\ UNCHANGED <<sdk, ctor, node, sendCalls, nonceFetches>>

privateKeyToAccount(t) ==
  /\ At(t, "privateKeyToAccount")
  /\ LET key == call[t].args.private_key IN
     \/ /\ KeyValid(key)
        /\ call' = [call EXCEPT ![t] =
             Proceed(t, "privateKeyToAccount",
                     [call[t].locals EXCEPT !.account = Some(AccountOf(key))])]
     \/ /\ ~KeyValid(key)
        /\ call' = [call EXCEPT ![t] = Raise(t, "privateKeyToAccount", "ValueError")]
  /\ UNCHANGED <<sdk, ctor, node, sendCalls, nonceFetches>>

\* Variant: the nonce is a fixed value instead of the fetched one.
send_transaction_dict_fixed_nonce(to_address, amount_wei, nonce) ==
  [to |-> to_address, value |-> amount_wei, gas |-> GasLimit,
   gasPrice |-> toWei(20, "gwei"), nonce |-> 0]

\* The transaction dict send_transaction builds.
send_transaction_dict(to_address, amount_wei, nonce) ==
  [to |-> to_address, value |-> amount_wei, gas |-> GasLimit,
   gasPrice |-> toWei(20, "gwei"), nonce |-> nonce]

\* The dict send_contract_transaction hands to buildTransaction.
send_contract_transaction_dict(nonce) ==
  [chainId |-> PolygonChainId, gas |-> GasLimit,
   gasPrice |-> toWei(20, "gwei"), nonce |-> nonce]

getTransactionCount(t) ==
  /\ At(t, "getTransactionCount")
  /\ nonceFetches' = nonceFetches + 1
  /\ LET c == call[t]
         n == eth_getTransactionCount(c.locals.account[1])
     IN
     \/ call' = [call EXCEPT ![t] =
          Proceed(t, "getTransactionCount",
                  [c.locals EXCEPT
                     !.nonce = Some(n),
                     !.transaction =
                        IF c.op = "send_transaction"
                        THEN Some(send_transaction_dict(c.args.to_address,
                                                        c.args.amount_wei, n))
                        ELSE @])]
     \/ call' = [call EXCEPT ![t] = Raise(t, "getTransactionCount", "TransportError")]
  /\ UNCHANGED <<sdk, ctor, node, sendCalls>>

buildTransaction(t) ==
  /\ At(t, "buildTransaction")
  /\ LET c == call[t]
         f == c.locals.function[1]
         tx == send_contract_transaction_dict(c.locals.nonce[1])
                 @@ [to |-> f.address, value |-> 0,
                     data |-> [name |-> f.name, args |-> f.args]]
     IN call' = [call EXCEPT ![t] =
          Proceed(t, "buildTransaction", [c.locals EXCEPT !.transaction = Some(tx)])]
  /\ UNCHANGED <<sdk, ctor, node, sendCalls, nonceFetches>>

signTransaction(t) ==
  /\ At(t, "signTransaction")
  /\ LET c == call[t]
         tx == c.locals.transaction[1]
     IN
     \/ /\ tx.to \in ValidAddresses
        /\ call' = [call EXCEPT ![t] =
             Proceed(t, "signTransaction",
                     [c.locals EXCEPT !.signed =
                        Some([rawTransaction |->
                                [tx |-> tx, from |-> AccountOf(c.args.private_key)]])])]
     \/ /\ tx.to \notin ValidAddresses
        /\ call' = [call EXCEPT ![t] = Raise(t, "signTransaction", "TypeError")]
  /\ UNCHANGED <<sdk, ctor, node, sendCalls, nonceFetches>>

SameSlot(p, raw) == p.from = raw.from /\ p.tx.nonce = raw.tx.nonce

sendRawTransaction(t) ==
  /\ At(t, "sendRawTransaction")
  /\ LET c == call[t]
         raw == c.locals.signed[1].rawTransaction
         ok == [c.locals EXCEPT !.result = Hash(raw)]
     IN
     \* accepted into the pool
     \/ /\ raw.tx.nonce >= txCount[raw.from]
        /\ ~\E p \in pending : SameSlot(p, raw)
        /\ pending' = pending \cup {raw}
        /\ call' = [call EXCEPT ![t] = Proceed(t, "sendRawTransaction", ok)]
     \* replaces a pending transaction of the same sender and nonce
     \/ /\ raw.tx.nonce >= txCount[raw.from]
        /\ \E p \in pending : SameSlot(p, raw) /\ p # raw
        /\ pending' = {p \in pending : ~SameSlot(p, raw)} \cup {raw}
        /\ call' = [call EXCEPT ![t] = Proceed(t, "sendRawTransaction", ok)]
     \* rejected by the node
     \/ /\ pending' = pending
        /\ call' = [call EXCEPT ![t] = Raise(t, "sendRawTransaction", "ValueError")]
     \/ /\ pending' = pending
        /\ call' = [call EXCEPT ![t] = Raise(t, "sendRawTransaction", "TransportError")]
  /\ UNCHANGED <<sdk, ctor, txCount, chain, sendCalls, nonceFetches>>

contract(t) ==
  /\ At(t, "contract")
  /\ LET c == call[t] IN
     \/ /\ loadsRaises(c.args.abi)
        /\ call' = [call EXCEPT ![t] = Raise(t, "contract", "JSONDecodeError")]
     \/ /\ ~loadsRaises(c.args.abi)
        /\ c.args.contract_address \notin ValidAddresses
        /\ call' = [call EXCEPT ![t] = Raise(t, "contract", "InvalidAddress")]
     \/ /\ ~loadsRaises(c.args.abi)
        /\ c.args.contract_address \in ValidAddresses
        /\ call' = [call EXCEPT ![t] =
             Proceed(t, "contract",
                     [c.locals EXCEPT !.contract =
                        Some([address |-> c.args.contract_address,
                              abi |-> loads(c.args.abi)])])]
  /\ UNCHANGED <<sdk, ctor, node, sendCalls, nonceFetches>>

get_function_by_name(t) ==
  /\ At(t, "get_function_by_name")
  /\ LET c == call[t]
         k == c.locals.contract[1]
         found == {i \in 1..Len(k.abi) : k.abi[i].name = c.args.function_name}
     IN
     \/ /\ found = {}
        /\ call' = [call EXCEPT ![t] = Raise(t, "get_function_by_name", "ValueError")]
     \/ /\ found # {}
        /\ \/ Len(c.args.args) # k.abi[CHOOSE i \in found : TRUE].inputs
           \/ c.args.args[1] \notin ValidAddresses
        /\ call' = [call EXCEPT ![t] =
             Raise(t, "get_function_by_name", "ValidationError")]
     \/ /\ found # {}
        /\ Len(c.args.args) = k.abi[CHOOSE i \in found : TRUE].inputs
        /\ c.args.args[1] \in ValidAddresses
        /\ call' = [call EXCEPT ![t] =
             Proceed(t, "get_function_by_name",
                     [c.locals EXCEPT !.function =
                        Some([address |-> k.address, name |-> c.args.function_name,
                              args |-> c.args.args])])]
  /\ UNCHANGED <<sdk, ctor, node, sendCalls, nonceFetches>>

\* Variant: function.transact() in place of function.call().
function_transact_submits(f) ==
  {[tx |-> [to |-> f.address, value |-> 0, gas |-> GasLimit,
            gasPrice |-> toWei(20, "gwei"), nonce |-> txCount["0xA"],
            data |-> [name |-> f.name, args |-> f.args]],
    from |-> "0xA"]}

\* The transactions function.call() submits to the node: eth_call is a read.
function_call_submits(f) == {}

function_call(t) ==
  /\ At(t, "call")
  /\ LET c == call[t]
         f == c.locals.function[1]
     IN
     /\ pending' = pending \cup function_call_submits(f)
     /\ \/ call' = [call EXCEPT ![t] =
               Proceed(t, "call", [c.locals EXCEPT !.result = eth_call(f)])]
        \/ call' = [call EXCEPT ![t] = Raise(t, "call", "ContractLogicError")]
        \/ call' = [call EXCEPT ![t] = Raise(t, "call", "TransportError")]
  /\ UNCHANGED <<sdk, ctor, txCount, chain, sendCalls, nonceFetches>>

\* ------------------------------------------------------------------ spec
Next ==
  \/ PolygonSDK_init
  \/ Mine
  \/ \E t \in Callers : get_block(t)
  \/ \E t \in Callers : get_transaction(t)
  \/ \E t \in Callers : get_balance(t)
  \/ \E t \in Callers : send_transaction(t)
  \/ \E t \in Callers : call_contract_function(t)
  \/ \E t \in Callers : send_contract_transaction(t)
  \/ \E t \in Callers : get_erc20_balance(t)
  \/ \E t \in Callers : getBlock(t)
  \/ \E t \in Callers : getTransaction(t)
  \/ \E t \in Callers : getBalance(t)
  \/ \E t \in Callers : privateKeyToAccount(t)
  \/ \E t \in Callers : getTransactionCount(t)
  \/ \E t \in Callers : buildTransaction(t)
  \/ \E t \in Callers : signTransaction(t)
  \/ \E t \in Callers : sendRawTransaction(t)
  \/ \E t \in Callers : contract(t)
  \/ \E t \in Callers : get_function_by_name(t)
  \/ \E t \in Callers : function_call(t)
  \/ \E t \in Callers : Return(t)

Spec == Init /\ [][Next]_vars

\* Two callers, sending.
NextConcurrent ==
  \/ PolygonSDK_init
  \/ Mine
  \/ \E t \in Callers : send_transaction(t)
  \/ \E t \in Callers : send_contract_transaction(t)
  \/ \E t \in Callers : privateKeyToAccount(t)
  \/ \E t \in Callers : getTransactionCount(t)
  \/ \E t \in Callers : buildTransaction(t)
  \/ \E t \in Callers : signTransaction(t)
  \/ \E t \in Callers : sendRawTransaction(t)
  \/ \E t \in Callers : contract(t)
  \/ \E t \in Callers : get_function_by_name(t)
  \/ \E t \in Callers : Return(t)

SpecConcurrent == InitConcurrent /\ [][NextConcurrent]_vars

\* ---------------------------------------------------------------- claims
Finished(t) == call[t].pc = "done"
Entered(t) == call[t].pc \in {"run", "done"}
ErrorLogged(c) == \E i \in 1..Len(c.log) : c.log[i].level = "ERROR"
InfoLogged(c) == \E i \in 1..Len(c.log) : c.log[i].level = "INFO"
Count(tr, fn) == Cardinality({i \in 1..Len(tr) : tr[i].fn = fn})
\* The step of thread t that ends its running method.
Finishing(t) == call[t].pc = "run" /\ call'[t].pc = "done"

\* C1: whatever error the dependency raises inside an operation-level method,
\* the method returns None, logs an ERROR and lets no exception escape.
C1_EveryDependencyErrorBecomesNone ==
  \A t \in Callers :
    (Finished(t) /\ call[t].err # NoExc) =>
      /\ call[t].raised = NoExc
      /\ call[t].ret = None
      /\ ErrorLogged(call[t])

\* C2: construction raises ConnectionError exactly when the connectivity check
\* fails; on success the instance holds the URL and an RPC handle for it and one
\* INFO entry is logged; a method only ever runs on an instance whose check
\* succeeded.
C2_ConstructionFailsExactlyWhenNotConnected ==
  /\ ctor # <<>> =>
       LET r == ctor[1] IN
       /\ (r.raised = "ConnectionError") <=> ~r.connected
       /\ r.raised \in {NoExc, "ConnectionError"}
       /\ r.connected =>
            /\ sdk = <<[provider_url |-> r.url, web3 |-> [provider |-> r.url]]>>
            /\ Len(r.log) = 1
            /\ r.log[1].level = "INFO"
       /\ ~r.connected => (sdk = <<>> /\ r.log = <<>>)
  /\ ctor = <<>> => sdk = <<>>
  /\ \A t \in Callers :
       call[t].pc # "idle" => (sdk # <<>> /\ ctor # <<>> /\ ctor[1].connected)

C2_Witness_ConstructionRefused ==
  /\ ctor # <<>>
  /\ ~ctor[1].connected
  /\ ctor[1].raised = "ConnectionError"
  /\ sdk = <<>>

\* C3: when the node lacks the block or transaction, get_block / get_transaction
\* return None, log an ERROR and raise nothing; when the node has the record
\* and answers, they return exactly that record.
C3_NotFoundBecomesNone ==
  [][\A t \in Callers :
       /\ (Finishing(t) /\ call[t].op = "get_block") =>
            LET id == call[t].args.block_number
                d == call'[t]
            IN  /\ (~BlockExists(id) /\ d.err # "TransportError") =>
                     /\ d.err = "BlockNotFound"
                     /\ d.ret = None
                     /\ d.raised = NoExc
                     /\ d.log = <<[level |-> "ERROR", msg |-> "Block not found"]>>
                /\ (BlockExists(id) /\ d.err = NoExc) =>
                     /\ d.ret = Some(eth_getBlock(id))
                     /\ d.raised = NoExc
                     /\ d.log = <<>>
       /\ (Finishing(t) /\ call[t].op = "get_transaction") =>
            LET h == call[t].args.tx_hash
                d == call'[t]
            IN  /\ (~TransactionKnown(h) /\ d.err # "TransportError") =>
                     /\ d.err = "TransactionNotFound"
                     /\ d.ret = None
                     /\ d.raised = NoExc
                     /\ d.log = <<[level |-> "ERROR", msg |-> "Transaction not found"]>>
                /\ (TransactionKnown(h) /\ d.err = NoExc) =>
                     /\ d.ret = Some(eth_getTransaction(h))
                     /\ d.raised = NoExc
                     /\ d.log = <<>>
    ]_vars

C3_Witness_BlockNotFound ==
  \E t \in Callers :
    /\ Finished(t)
    /\ call[t].op = "get_block"
    /\ call[t].err = "BlockNotFound"
    /\ call[t].ret = None
    /\ call[t].args.block_number.number > Height

\* C4: get_balance on a malformed address returns None and logs an ERROR, the
\* validation error does not escape; on a valid address that the node answers
\* it returns the node's integer balance as it is.
C4_MalformedAddressBecomesNone ==
  [][\A t \in Callers :
       (Finishing(t) /\ call[t].op = "get_balance") =>
         LET a == call[t].args.address
             d == call'[t]
         IN  /\ a \notin ValidAddresses =>
                  /\ d.err = "InvalidAddress"
                  /\ d.ret = None
                  /\ d.raised = NoExc
                  /\ d.log = <<[level |-> "ERROR", msg |-> "Error getting balance"]>>
             /\ (a \in ValidAddresses /\ d.err = NoExc) =>
                  /\ d.ret = Some(eth_getBalance(a))
                  /\ d.raised = NoExc
    ]_vars

C4_Witness_MalformedAddress ==
  \E t \in Callers :
    /\ Finished(t)
    /\ call[t].op = "get_balance"
    /\ call[t].args.address = "0xZZ"
    /\ call[t].ret = None
    /\ ErrorLogged(call[t])

\* C5 as stated: every send call performs exactly one nonce fetch, so once no
\* send is running the node has seen as many fetches as there were send calls.
C5_ExactlyOneNonceFetchPerSend ==
  /\ \A t \in Callers :
       (Finished(t) /\ call[t].op \in SendOps) =>
         Count(call[t].trace, "getTransactionCount") = 1
  /\ (\A t \in Callers : call[t].pc # "run") => nonceFetches = sendCalls

\* C5 as amended: a send call performs at most one nonce fetch, and exactly one
\* when the sender account was derived (after, for send_contract_transaction,
\* the function was resolved); a call that fails earlier performs none; over
\* the send calls made the node sees at most one fetch per call.
C5_AtMostOneNonceFetchPerSend ==
  /\ \A t \in Callers :
       (Entered(t) /\ call[t].op \in SendOps) =>
         /\ Count(call[t].trace, "getTransactionCount") <= 1
         /\ Finished(t) =>
              (Count(call[t].trace, "getTransactionCount") = 1
                 <=> call[t].locals.account # None)
         /\ call[t].locals.nonce # None =>
              Count(call[t].trace, "getTransactionCount") = 1
  /\ nonceFetches <= sendCalls

C5_Witness_TwoSendsTwoFetches ==
  /\ sendCalls = 2
  /\ nonceFetches = 2
  /\ \E t \in Callers :
       /\ Finished(t)
       /\ call[t].op \in SendOps
       /\ call[t].ret # None
       /\ call[t].locals.nonce = Some(1)

\* C6: nothing in the SDK tells two in-flight sends of one sender apart: when
\* both have fetched a nonce and no transaction of that sender was mined after
\* the earlier fetch, both hold the same nonce.
C6_InFlightSendsShareNonce ==
  \A t1, t2 \in Callers :
    ( /\ t1 # t2
      /\ Entered(t1) /\ Entered(t2)
      /\ call[t1].locals.nonce # None /\ call[t2].locals.nonce # None
      /\ call[t1].locals.account = call[t2].locals.account )
    =>
      LET a == call[t1].locals.account[1]
          n1 == call[t1].locals.nonce[1]
          n2 == call[t2].locals.nonce[1]
      IN  /\ n1 <= txCount[a]
          /\ n2 <= txCount[a]
          /\ (n1 # n2) => (n1 < txCount[a] \/ n2 < txCount[a])

\* Both calls fetched the same nonce and both broadcast a transaction with it;
\* one is a send_transaction, the other a send_contract_transaction.
C6_Witness_BothBroadcastSameNonce ==
  /\ \A t \in Callers :
       /\ Finished(t)
       /\ call[t].ret # None
       /\ call[t].locals.account = Some("0xA")
       /\ call[t].locals.signed[1].rawTransaction.tx.nonce = 0
       /\ Count(call[t].trace, "sendRawTransaction") = 1
  /\ \E t1, t2 \in Callers :
       /\ call[t1].op = "send_transaction"
       /\ call[t2].op = "send_contract_transaction"

\* C7: get_erc20_balance makes one call_contract_function call, to the token,
\* for balanceOf with the wallet as the only argument, and returns what that
\* call returns: the integer the contract call decodes to, unscaled, or None
\* whenever the call fails.
C7_Erc20BalanceIsOneBalanceOfCall ==
  \A t \in Callers :
    (Entered(t) /\ call[t].outer = "get_erc20_balance") =>
      LET c == call[t]
          token == c.outerArgs.token_address
          wallet == c.outerArgs.wallet_address
      IN  /\ Len(c.delegations) = 1
          /\ c.delegations[1].contract_address = token
          /\ c.delegations[1].function_name = "balanceOf"
          /\ c.delegations[1].args = <<wallet>>
          /\ c.op = "call_contract_function"
          /\ c.args = c.delegations[1]
          /\ Count(c.trace, "call") <= 1
          /\ Finished(t) =>
               /\ c.raised = NoExc
               /\ c.err = NoExc =>
                    /\ token \in ValidAddresses /\ wallet \in ValidAddresses
                    /\ c.ret = Some(IF wallet = "0xA" THEN 1000 ELSE 0)
                    /\ c.trace[Len(c.trace)] = [fn |-> "call", ok |-> TRUE]
               /\ c.err # NoExc => (c.ret = None /\ ErrorLogged(c))
               /\ (token \notin ValidAddresses \/ wallet \notin ValidAddresses)
                    => c.ret = None

C7_Witness_Erc20BalanceReturned ==
  \E t \in Callers :
    /\ Finished(t)
    /\ call[t].outer = "get_erc20_balance"
    /\ call[t].outerArgs = [token_address |-> "0xT", wallet_address |-> "0xA"]
    /\ call[t].ret = Some(1000)

\* C8: no step of call_contract_function (called directly or through
\* get_erc20_balance) fetches a nonce, signs or broadcasts, and none changes
\* the node's pool, chain or nonces.
C8_ContractCallIsReadOnly ==
  [][\A t \in Callers :
       ( /\ call[t].pc = "run"
         /\ call[t].op = "call_contract_function"
         /\ call'[t] # call[t] ) =>
         /\ pending' = pending
         /\ chain' = chain
         /\ txCount' = txCount
         /\ nonceFetches' = nonceFetches
         /\ \A i \in 1..Len(call'[t].trace) :
              call'[t].trace[i].fn \notin
                {"privateKeyToAccount", "getTransactionCount", "buildTransaction",
                 "signTransaction", "sendRawTransaction"}
    ]_vars

C8_Witness_ContractCallMade ==
  \E t \in Callers :
    /\ Finished(t)
    /\ call[t].op = "call_contract_function"
    /\ call[t].trace[Len(call[t].trace)].fn = "call"
    /\ pending # {}

\* C9: a transaction that a send method signs carries gas 2,000,000, gas price
\* 20 gwei and the nonce the node returned in that call; from
\* send_contract_transaction also chain id 137; from send_transaction the
\* caller's to_address and amount as `to` and `value`. The node's pool and
\* chain hold only such transactions.
TwentyGwei == [digits |-> 20, exp |-> 9]

C9_BroadcastTransactionFields ==
  /\ \A t \in Callers :
       (Entered(t) /\ call[t].locals.signed # None) =>
         LET c == call[t]
             tx == c.locals.signed[1].rawTransaction.tx
         IN  /\ tx.gas = 2000000
             /\ tx.gasPrice = TwentyGwei
             /\ tx.nonce = c.locals.nonce[1]
             /\ tx.nonce <= txCount[c.locals.account[1]]
             /\ c.op = "send_contract_transaction" =>
                  /\ tx.chainId = 137
                  /\ tx.to = c.args.contract_address
             /\ c.op = "send_transaction" =>
                  /\ tx.to = c.args.to_address
                  /\ tx.value = c.args.amount_wei
                  /\ DOMAIN tx = {"to", "value", "gas", "gasPrice", "nonce"}
  /\ \A raw \in KnownTransactions :
       /\ raw.tx.gas = 2000000
       /\ raw.tx.gasPrice = TwentyGwei
       /\ "data" \in DOMAIN raw.tx => raw.tx.chainId = 137

\* A transfer and a contract transaction of one sender, the second with the
\* nonce fetched after the first was mined.
C9_Witness_BothKindsBroadcast ==
  /\ Len(chain) = 1
  /\ chain[1].tx.value = 2
  /\ \E raw \in pending :
       /\ "data" \in DOMAIN raw.tx
       /\ raw.from = chain[1].from
       /\ raw.tx.nonce = 1

\* C10: a send call fetches the nonce, then signs, then broadcasts, and
\* broadcasts at most once; it returns an identifier and logs INFO only when
\* its broadcast was issued and accepted; when a step before the broadcast
\* fails there is no broadcast and no identifier.
StepRank(fn) ==
  CASE fn = "getTransactionCount" -> 1
    [] fn = "signTransaction" -> 2
    [] fn = "sendRawTransaction" -> 3
    [] OTHER -> 0

C10_FetchSignBroadcastInOrder ==
  \A t \in Callers :
    (Entered(t) /\ call[t].op \in SendOps) =>
      LET c == call[t]
          tr == c.trace
          n == Len(tr)
      IN  /\ Count(tr, "sendRawTransaction") <= 1
          /\ \A i, j \in 1..n :
               (i < j /\ StepRank(tr[i].fn) > 0 /\ StepRank(tr[j].fn) > 0)
                 => StepRank(tr[i].fn) < StepRank(tr[j].fn)
          /\ \A j \in 1..n :
               tr[j].fn = "sendRawTransaction" =>
                 /\ \E i \in 1..(j - 1) : tr[i] = [fn |-> "getTransactionCount", ok |-> TRUE]
                 /\ \E i \in 1..(j - 1) : tr[i] = [fn |-> "signTransaction", ok |-> TRUE]
                 /\ \A i \in 1..(j - 1) : tr[i].ok
          /\ (c.ret # None \/ InfoLogged(c)) =>
               /\ Finished(t)
               /\ tr[n] = [fn |-> "sendRawTransaction", ok |-> TRUE]
               /\ c.ret = Some([hexstr |-> c.locals.signed[1].rawTransaction])
               /\ InfoLogged(c)
               /\ c.raised = NoExc
          /\ (\E i \in 1..n : ~tr[i].ok) => c.ret = None

C10_Witness_SendFailsBeforeBroadcast ==
  \E t \in Callers :
    /\ Finished(t)
    /\ call[t].op = "send_transaction"
    /\ call[t].trace[Len(call[t].trace)] = [fn |-> "signTransaction", ok |-> FALSE]
    /\ call[t].ret = None
    /\ pending # {}

====
